---- MODULE Spec2Model ----
(***************************************************************************)
(* Model of openssl/src/x509/store.rs: the X509StoreBuilder / X509Store    *)
(* wrappers around one libcrypto X509_STORE handle.                        *)
(*                                                                         *)
(* The wrapper methods are the actions.  Each one forwards to a libcrypto  *)
(* function and turns its return code into a Result with cvt / cvt_p.  The *)
(* libcrypto functions are operators on the record `st` (the X509_STORE    *)
(* behind the handle), written after the OpenSSL manual pages the doc      *)
(* comments of store.rs point to; the ones that can end in more than one   *)
(* way (allocation failure, the library version, the environment) give the *)
(* SET of their outcomes [ret, st].                                        *)
(*                                                                         *)
(* Spec       is the life of one builder and of the store built from it.   *)
(* SpecShared is a built store shared by verifier threads, whose lookups   *)
(*            cache what they find, and a thread that reads objects().     *)
(***************************************************************************)
EXTENDS Integers, Sequences, FiniteSets, TLC

\* ---------------------------------------------------------------- bounds

\* Certificates are 1..MaxCerts.
MaxCerts == 3
\* Depth arguments range over -MaxDepthArg .. MaxDepthArg.
MaxDepthArg == 2
\* Wrapper calls made on one builder before the run stops calling.
MaxCalls == 4
\* Verifier threads inserting into the cache of the shared, finalized store.
MaxInserts == 3

Certs == 1..MaxCerts
\* Two different certificates may carry the same subject name.
subject(c) == c \div 2
DepthArgs == (0 - MaxDepthArg)..MaxDepthArg

\* X509Purpose / X509Trust raw codes (lines 56-64, 82-90).  from_raw lets
\* any c_int through; from_raw(99) is a code libcrypto does not know.
X509_PURPOSE_SSL_CLIENT == 1
X509_PURPOSE_SSL_SERVER == 2
X509_TRUST_COMPAT == 1
X509_TRUST_SSL_CLIENT == 2
from_raw(raw) == raw
as_raw(v) == v
PurposeArgs == {X509_PURPOSE_SSL_CLIENT, X509_PURPOSE_SSL_SERVER, from_raw(99)}
TrustArgs == {X509_TRUST_COMPAT, X509_TRUST_SSL_CLIENT, from_raw(99)}

\* X509VerifyFlags as the set of its bits; flags.bits() hands the set over.
FlagBits == {"CRL_CHECK", "POLICY_CHECK", "EXPLICIT_POLICY"}
PolicyMask == {"POLICY_CHECK", "EXPLICIT_POLICY"}
FlagArgs == SUBSET FlagBits

\* The file system seen by load_locations / set_default_paths: "" is the
\* empty path, "bundle" a readable PEM bundle holding BundleCerts, "missing"
\* a path that does not exist, "certs.d" a directory.
Paths == {"", "bundle", "missing", "certs.d"}
BundleCerts == <<1, 2>>
DefaultDir == "default.d"
FileTypes == {"PEM", "ASN1"}

Verifiers == 1..MaxInserts

VARIABLES
    st,           \* the X509_STORE behind the handle
    freed,        \* number of times X509_STORE_free destroyed the handle
    uaf,          \* the handle was used after it was freed
    builder,      \* the X509StoreBuilder value: "live", "moved", "dropped"
    store,        \* the X509Store value: "none", "live", "dropped"
    builds,       \* number of build() calls
    lookupRef,    \* index of the lookup borrowed from add_lookup, 0 = none
    res,          \* Result of the last wrapper call
    lastOp,       \* the last wrapper call and its depth / paths / flags
    calls,        \* wrapper calls made on the builder so far
    added,        \* per certificate, the add_cert calls that returned Ok
    flagsPassed,  \* union of the flags of all set_flags calls
    atBuild,      \* the X509_STORE as it was when build() was entered
    lock,         \* holder of the X509_STORE lock, 0 = free
    pc,           \* position of each verifier thread
    want,         \* the object each verifier's lookup found
    rpc,          \* position of the reader thread
    seen          \* what the reader last read through objects()

vars == <<st, freed, uaf, builder, store, builds, lookupRef, res, lastOp,
          calls, added, flagsPassed, atBuild, lock, pc, want, rpc, seen>>

threadVars == <<lock, pc, want, rpc>>

\* A wrapper call as recorded in lastOp.
Op(name) == [op |-> name, depth |-> 0, paths |-> <<>>, flags |-> {}]

\* ------------------------------------------------------------ libcrypto

Range(s) == {s[i] : i \in 1..Len(s)}

\* X509_STORE_new: empty cache, no lookups, X509_VERIFY_PARAM_new defaults
\* (depth -1 = unset, purpose and trust 0, no flags).
X509_STORE_new ==
    [objs |-> <<>>, lookups |-> <<>>, depth |-> -1, purpose |-> 0,
     trust |-> 0, flags |-> {}]

\* x509_store_add: push the object unless an equal one is cached.
x509_store_add(s, c) ==
    IF c \in Range(s.objs) THEN s ELSE [s EXCEPT !.objs = Append(@, c)]

\* X509_STORE_add_cert: 1 with the object cached; for an object that is
\* already cached 1 (OpenSSL 1.1.1 on) or 0 (before); 0 and no change when
\* the X509_OBJECT cannot be allocated.
X509_STORE_add_cert(s, c) ==
    {[ret |-> 1, st |-> x509_store_add(s, c)], [ret |-> 0, st |-> s]}

\* X509_STORE_set_depth -> X509_VERIFY_PARAM_set_depth: stores, returns 1.
X509_STORE_set_depth(s, depth) ==
    {[ret |-> 1, st |-> [s EXCEPT !.depth = depth]]}

\* X509_STORE_set_purpose -> X509_PURPOSE_set: ids 1..9 are known.
X509_STORE_set_purpose(s, p) ==
    IF p \in 1..9 THEN {[ret |-> 1, st |-> [s EXCEPT !.purpose = p]]}
    ELSE {[ret |-> 0, st |-> s]}

\* X509_STORE_set_trust -> X509_TRUST_set: ids 1..8 are known.
X509_STORE_set_trust(s, t) ==
    IF t \in 1..8 THEN {[ret |-> 1, st |-> [s EXCEPT !.trust = t]]}
    ELSE {[ret |-> 0, st |-> s]}

\* Variant: the new bits replace the old ones.
X509_STORE_set_flags_replace(s, f) ==
    {[ret |-> 1, st |-> [s EXCEPT !.flags = f]]}

\* X509_STORE_set_flags -> X509_VERIFY_PARAM_set_flags: ORs the bits in,
\* turns POLICY_CHECK on with any policy bit, returns 1.
X509_STORE_set_flags(s, f) ==
    {[ret |-> 1,
      st |-> [s EXCEPT !.flags =
                 @ \cup f \cup
                 (IF f \cap PolicyMask # {} THEN {"POLICY_CHECK"} ELSE {})]]}

\* The lookup of method m: the store's existing one, else a new one pushed.
lookup_of(s, m) ==
    IF \E i \in 1..Len(s.lookups) : s.lookups[i].method = m
    THEN [idx |-> CHOOSE i \in 1..Len(s.lookups) : s.lookups[i].method = m,
          st |-> s]
    ELSE [idx |-> Len(s.lookups) + 1,
          st |-> [s EXCEPT !.lookups =
                     Append(@, [method |-> m, dirs |-> <<>>])]]

\* X509_STORE_add_lookup: the lookup (ret = its index), or NULL (ret = 0).
X509_STORE_add_lookup(s, m) ==
    {[ret |-> lookup_of(s, m).idx, st |-> lookup_of(s, m).st],
     [ret |-> 0, st |-> s]}

\* X509_LOOKUP_add_dir -> by_dir add_cert_dir: an empty name is refused,
\* a name already registered is skipped, a new one is appended.
X509_LOOKUP_add_dir(s, i, name, type) ==
    IF name = "" THEN [ret |-> 0, st |-> s]
    ELSE IF \E j \in 1..Len(s.lookups[i].dirs) :
                s.lookups[i].dirs[j].name = name
         THEN [ret |-> 1, st |-> s]
         ELSE [ret |-> 1,
               st |-> [s EXCEPT !.lookups[i].dirs =
                          Append(@, [name |-> name, type |-> type])]]

RECURSIVE add_all(_, _)
add_all(s, cs) ==
    IF cs = <<>> THEN s ELSE add_all(x509_store_add(s, Head(cs)), Tail(cs))

\* X509_LOOKUP_load_file (PEM): 1 with the bundle's objects cached, 0 when
\* the file cannot be opened.
X509_LOOKUP_load_file(s, file) ==
    IF file = "bundle" THEN [ret |-> 1, st |-> add_all(s, BundleCerts)]
    ELSE [ret |-> 0, st |-> s]

\* X509_STORE_load_locations with both pointers non-NULL: the file lookup
\* is added and must load the file, then the hash_dir lookup is added and
\* must take the directory; the first failure returns 0.
X509_STORE_load_locations(s, file, dir) ==
    LET fl == lookup_of(s, "file")
        ld == X509_LOOKUP_load_file(fl.st, file)
        dl == lookup_of(ld.st, "hash_dir")
        ad == X509_LOOKUP_add_dir(dl.st, dl.idx, dir, "PEM")
    IN  IF ld.ret # 1 THEN {[ret |-> 0, st |-> ld.st]}
        ELSE IF ad.ret # 1 THEN {[ret |-> 0, st |-> ad.st]}
        ELSE {[ret |-> 1, st |-> ad.st]}

\* X509_STORE_set_default_paths: both lookups are added; the default file
\* is loaded when the environment has one and the default directory is
\* registered, the results of both being ignored; returns 1.
X509_STORE_set_default_paths(s) ==
    LET fl == lookup_of(s, "file")
        withFile(f) == X509_LOOKUP_load_file(fl.st, f).st
        reg(t) == LET dl == lookup_of(t, "hash_dir")
                  IN  X509_LOOKUP_add_dir(dl.st, dl.idx, DefaultDir, "PEM").st
    IN  {[ret |-> 1, st |-> reg(withFile(f))] : f \in {"bundle", "missing"}}

\* crate::cvt / crate::cvt_p: a return code <= 0 (a NULL pointer) is Err.
cvt(r) == IF r <= 0 THEN "Err" ELSE "Ok"
cvt_p(r) == IF r = 0 THEN "Err" ELSE "Ok"

Init ==
    /\ st = X509_STORE_new
    /\ freed = 0
    /\ uaf = FALSE
    /\ builder = "live"
    /\ store = "none"
    /\ builds = 0
    /\ lookupRef = 0
    /\ res = "Ok"
    /\ lastOp = Op("new")
    /\ calls = 0
    /\ added = [c \in Certs |-> 0]
    /\ flagsPassed = {}
    /\ atBuild = X509_STORE_new
    /\ lock = 0
    /\ pc = [t \in Verifiers |-> "idle"]
    /\ want = [t \in Verifiers |-> 1]
    /\ rpc = "start"
    /\ seen = <<>>

\* ------------------------------------------------- X509StoreBuilder(Ref)

\* What every &mut self call on the builder shares: the builder is owned
\* and not moved, the borrow of an earlier add_lookup has ended, and the
\* handle is dereferenced.
BuilderCall(op) ==
    /\ builder = "live"
    /\ calls < MaxCalls
    /\ calls' = calls + 1
    /\ lastOp' = op
    /\ uaf' = (uaf \/ freed > 0)
    /\ UNCHANGED <<freed, builder, store, builds, atBuild, threadVars, seen>>

\* Variant: the return code is not looked at.
add_cert_unchecked(cert) ==
    /\ BuilderCall(Op("add_cert"))
    /\ \E r \in X509_STORE_add_cert(st, cert) :
          /\ st' = r.st
          /\ res' = "Ok"
          /\ added' = [added EXCEPT ![cert] = @ + 1]
    /\ lookupRef' = 0
    /\ UNCHANGED flagsPassed

\* add_cert (137-139)
add_cert(cert) ==
    /\ BuilderCall(Op("add_cert"))
    /\ \E r \in X509_STORE_add_cert(st, cert) :
          /\ st' = r.st
          /\ res' = cvt(r.ret)
          /\ added' = IF cvt(r.ret) = "Ok"
                       THEN [added EXCEPT ![cert] = @ + 1] ELSE added
    /\ lookupRef' = 0
    /\ UNCHANGED flagsPassed

\* Variant: a negative depth is refused before libcrypto is called.
set_depth_checked(depth) ==
    /\ BuilderCall([Op("set_depth") EXCEPT !.depth = depth])
    /\ IF depth < 0
       THEN st' = st /\ res' = "Err"
       ELSE \E r \in X509_STORE_set_depth(st, depth) :
               st' = r.st /\ res' = cvt(r.ret)
    /\ lookupRef' = 0
    /\ UNCHANGED <<added, flagsPassed>>

\* set_depth (146-148)
set_depth(depth) ==
    /\ BuilderCall([Op("set_depth") EXCEPT !.depth = depth])
    /\ \E r \in X509_STORE_set_depth(st, depth) :
          st' = r.st /\ res' = cvt(r.ret)
    /\ lookupRef' = 0
    /\ UNCHANGED <<added, flagsPassed>>

\* set_purpose (155-157)
set_purpose(purpose) ==
    /\ BuilderCall(Op("set_purpose"))
    /\ \E r \in X509_STORE_set_purpose(st, as_raw(purpose)) :
          st' = r.st /\ res' = cvt(r.ret)
    /\ lookupRef' = 0
    /\ UNCHANGED <<added, flagsPassed>>

\* set_trust (164-166)
set_trust(trust) ==
    /\ BuilderCall(Op("set_trust"))
    /\ \E r \in X509_STORE_set_trust(st, as_raw(trust)) :
          st' = r.st /\ res' = cvt(r.ret)
    /\ lookupRef' = 0
    /\ UNCHANGED <<added, flagsPassed>>

\* Variant: the return code is not looked at.
load_locations_unchecked(file, dir) ==
    /\ BuilderCall([Op("load_locations") EXCEPT !.paths = <<file, dir>>])
    /\ \E r \in X509_STORE_load_locations(st, file, dir) :
          st' = r.st /\ res' = "Ok"
    /\ lookupRef' = 0
    /\ UNCHANGED <<added, flagsPassed>>

\* load_locations (171-183): both paths become C strings, never NULL.
load_locations(file, dir) ==
    /\ BuilderCall([Op("load_locations") EXCEPT !.paths = <<file, dir>>])
    /\ \E r \in X509_STORE_load_locations(st, file, dir) :
          st' = r.st /\ res' = cvt(r.ret)
    /\ lookupRef' = 0
    /\ UNCHANGED <<added, flagsPassed>>

\* set_default_paths (190-192)
set_default_paths ==
    /\ BuilderCall(Op("set_default_paths"))
    /\ \E r \in X509_STORE_set_default_paths(st) :
          st' = r.st /\ res' = cvt(r.ret)
    /\ lookupRef' = 0
    /\ UNCHANGED <<added, flagsPassed>>

\* add_lookup (199-205): on success the caller holds &mut X509LookupRef,
\* a borrow of the builder.
add_lookup(method) ==
    /\ BuilderCall(Op("add_lookup"))
    /\ \E r \in X509_STORE_add_lookup(st, method) :
          /\ st' = r.st
          /\ res' = cvt_p(r.ret)
          /\ lookupRef' = r.ret
    /\ UNCHANGED <<added, flagsPassed>>

\* set_flags (213-215)
set_flags(flagArg) ==
    /\ BuilderCall([Op("set_flags") EXCEPT !.flags = flagArg])
    /\ \E r \in X509_STORE_set_flags(st, flagArg) :
          st' = r.st /\ res' = cvt(r.ret)
    /\ flagsPassed' = flagsPassed \cup flagArg
    /\ lookupRef' = 0
    /\ UNCHANGED added

\* X509LookupRef<HashDir>::add_dir (254-268), through the borrowed lookup.
add_dir(name, file_type) ==
    /\ lookupRef # 0
    /\ BuilderCall(Op("add_dir"))
    /\ LET r == X509_LOOKUP_add_dir(st, lookupRef, name, file_type)
       IN  st' = r.st /\ res' = cvt(r.ret)
    /\ UNCHANGED <<lookupRef, added, flagsPassed>>

\* X509_STORE_free on the handle (the drop of lines 106 and 283).
X509_STORE_free ==
    /\ freed' = freed + 1
    /\ uaf' = (uaf \/ freed > 0)

\* Variant: build borrows the builder instead of consuming it.
build_by_ref ==
    /\ builder = "live"
    /\ builder' = "live"
    /\ store' = "live"
    /\ builds' = builds + 1
    /\ atBuild' = st
    /\ lastOp' = Op("build")
    /\ lookupRef' = 0
    /\ UNCHANGED <<st, freed, uaf, res, calls, added, flagsPassed,
                   threadVars, seen>>

\* Variant: no mem::forget, the builder's destructor runs as build returns.
build_drops_self ==
    /\ builder = "live"
    /\ builder' = "dropped"
    /\ store' = "live"
    /\ builds' = builds + 1
    /\ atBuild' = st
    /\ X509_STORE_free
    /\ lastOp' = Op("build")
    /\ lookupRef' = 0
    /\ UNCHANGED <<st, res, calls, added, flagsPassed, threadVars, seen>>

\* build (127-131): the handle goes to the X509Store, mem::forget keeps the
\* builder's destructor from running.
build ==
    /\ builder = "live"
    /\ builder' = "moved"
    /\ store' = "live"
    /\ builds' = builds + 1
    /\ atBuild' = st
    /\ lastOp' = Op("build")
    /\ lookupRef' = 0
    /\ UNCHANGED <<st, freed, uaf, res, calls, added, flagsPassed,
                   threadVars, seen>>

\* Drop of an X509StoreBuilder that was never built (104-112).
drop_builder ==
    /\ builder = "live"
    /\ builder' = "dropped"
    /\ X509_STORE_free
    /\ lastOp' = Op("drop_builder")
    /\ lookupRef' = 0
    /\ UNCHANGED <<st, store, builds, res, calls, added, flagsPassed,
                   atBuild, threadVars, seen>>

\* Drop of the X509Store (281-289).
drop_store ==
    /\ store = "live"
    /\ store' = "dropped"
    /\ X509_STORE_free
    /\ lastOp' = Op("drop_store")
    /\ UNCHANGED <<st, builder, builds, lookupRef, res, calls, added,
                   flagsPassed, atBuild, threadVars, seen>>

\* X509StoreRef::objects (293-295), read by the thread that owns the store.
objects ==
    /\ store = "live"
    /\ uaf' = (uaf \/ freed > 0)
    /\ seen' = st.objs
    /\ lastOp' = Op("objects")
    /\ UNCHANGED <<st, freed, builder, store, builds, lookupRef, res, calls,
                   added, flagsPassed, atBuild, threadVars>>

Next ==
    \/ \E c \in Certs : add_cert(c)
    \/ \E d \in DepthArgs : set_depth(d)
    \/ \E p \in PurposeArgs : set_purpose(p)
    \/ \E t \in TrustArgs : set_trust(t)
    \/ \E f \in Paths, d \in Paths : load_locations(f, d)
    \/ set_default_paths
    \/ add_lookup("hash_dir")
    \/ \E f \in FlagArgs : set_flags(f)
    \/ \E n \in Paths, ft \in FileTypes : add_dir(n, ft)
    \/ build
    \/ drop_builder
    \/ drop_store
    \/ objects

\* ------------------------------------------- the finalized store, shared

\* X509Store is Send + Sync (281): after build() any number of threads hold
\* &X509StoreRef.  Verifier threads run on-demand lookups that cache what
\* they find; one thread inspects the cache through objects().

\* A builder given a hashed-directory lookup on "certs.d", then built.
SharedStore ==
    LET l == lookup_of(X509_STORE_new, "hash_dir")
    IN  X509_LOOKUP_add_dir(l.st, l.idx, "certs.d", "PEM").st

InitShared ==
    /\ st = SharedStore
    /\ freed = 0
    /\ uaf = FALSE
    /\ builder = "moved"
    /\ store = "live"
    /\ builds = 1
    /\ lookupRef = 0
    /\ res = "Ok"
    /\ lastOp = Op("build")
    /\ calls = 2
    /\ added = [c \in Certs |-> 0]
    /\ flagsPassed = {}
    /\ atBuild = SharedStore
    /\ lock = 0
    /\ pc = [t \in Verifiers |-> "idle"]
    /\ want \in [Verifiers -> Certs]
    /\ rpc = "start"
    /\ seen = <<>>

storeVars == <<freed, uaf, builder, store, builds, lookupRef, res, lastOp,
               calls, added, flagsPassed, atBuild, want>>

\* Object Cache insert, entered under the store's lock.
insert_lock(t) ==
    /\ store = "live"
    /\ pc[t] = "idle"
    /\ lock = 0
    /\ lock' = t
    /\ pc' = [pc EXCEPT ![t] = "locked"]
    /\ UNCHANGED <<st, storeVars, rpc, seen>>

\* An equal object is cached: nothing is written.  Otherwise the write of
\* the new entry begins.
insert_begin(t) ==
    /\ pc[t] = "locked"
    /\ pc' = [pc EXCEPT ![t] =
                 IF want[t] \in Range(st.objs) THEN "written" ELSE "writing"]
    /\ UNCHANGED <<st, storeVars, lock, rpc, seen>>

\* The entry is complete and counted.
insert_finish(t) ==
    /\ pc[t] = "writing"
    /\ st' = x509_store_add(st, want[t])
    /\ pc' = [pc EXCEPT ![t] = "written"]
    /\ UNCHANGED <<storeVars, lock, rpc, seen>>

insert_unlock(t) ==
    /\ pc[t] = "written"
    /\ lock' = 0
    /\ pc' = [pc EXCEPT ![t] = "done"]
    /\ UNCHANGED <<st, storeVars, rpc, seen>>

\* X509StoreRef::objects (293-295) on the shared store: the pointer into
\* the store's own stack is handed out as &StackRef; no lock is taken.
objects_shared ==
    /\ store = "live"
    /\ rpc = "start"
    /\ rpc' = "holding"
    /\ UNCHANGED <<st, storeVars, lock, pc, seen>>

\* A read through the &StackRef.  While an insert is writing the stack the
\* read races with it: it sees the stack as it was, as it will be, or with
\* the new slot counted and its entry not yet there (entry 0).
read_objects ==
    /\ rpc = "holding"
    /\ IF \E t \in Verifiers : pc[t] = "writing"
       THEN \E t \in Verifiers :
               /\ pc[t] = "writing"
               /\ \/ seen' = st.objs
                  \/ seen' = Append(st.objs, want[t])
                  \/ seen' = Append(st.objs, 0)
       ELSE seen' = st.objs
    /\ UNCHANGED <<st, storeVars, lock, pc, rpc>>

NextShared ==
    \/ \E t \in Verifiers : insert_lock(t)
    \/ \E t \in Verifiers : insert_begin(t)
    \/ \E t \in Verifiers : insert_finish(t)
    \/ \E t \in Verifiers : insert_unlock(t)
    \/ objects_shared
    \/ read_objects

SpecShared == InitShared /\ [][NextShared]_vars

Spec == Init /\ [][Next]_vars
\* ---------------------------------------------------------------- claims

Count(s, c) == Cardinality({i \in 1..Len(s) : s[i] = c})

\* C1: after build, every certificate that add_cert accepted, however often
\* it was added, is in the store's object cache exactly once and is among
\* the entries that carry its subject name.
C1_AddedCertCachedOnce ==
    store # "none" =>
        \A c \in Certs :
            added[c] > 0 =>
                /\ Count(st.objs, c) = 1
                /\ \E i \in 1..Len(st.objs) :
                      subject(st.objs[i]) = subject(c) /\ st.objs[i] = c

\* Certificate 2 was added twice and certificate 3, of the same subject
\* name, once; the builder was built.
C1_Witness ==
    /\ store = "live"
    /\ added[2] >= 2
    /\ added[3] >= 1
    /\ Len(st.objs) = 2

\* C2: when all concurrent inserts are done the cache holds each distinct
\* object once, and no read through objects() ever sees a slot whose entry
\* is not yet there.
C2_ConcurrentInsertSafe ==
    /\ (\A t \in Verifiers : pc[t] = "done") =>
          /\ Len(st.objs) = Cardinality({want[t] : t \in Verifiers})
          /\ \A t \in Verifiers : Count(st.objs, want[t]) = 1
    /\ 0 \notin Range(seen)

\* C3: build happens at most once, and once the builder is consumed no
\* builder call is made, nothing is built again and the X509_STORE is not
\* changed.
C3_BuilderConsumedOnce ==
    /\ [](builds <= 1)
    /\ [][builder # "live" =>
            calls' = calls /\ builds' = builds /\ st' = st]_vars

\* The store was built while the builder still had calls to make, and
\* time has passed since.
C3_Witness ==
    /\ builder = "moved"
    /\ store = "live"
    /\ builds = 1
    /\ calls < MaxCalls
    /\ lastOp.op = "objects"

\* C5: load_locations with both paths empty returns Err and leaves the
\* object cache as it was.
C5_EmptyPathsFail ==
    [][(/\ calls' = calls + 1
        /\ lastOp'.op = "load_locations"
        /\ lastOp'.paths = <<"", "">>)
          => res' = "Err" /\ st'.objs = st.objs]_vars

\* load_locations("", "") was called on a builder that holds certificates.
C5_Witness ==
    /\ lastOp.op = "load_locations"
    /\ lastOp.paths = <<"", "">>
    /\ res = "Err"
    /\ Len(st.objs) > 0

C7_FlagsEqualUnion == st.flags = flagsPassed

\* C7 amended: every flag of every set_flags call is active; the only flag
\* that can be active without having been passed is POLICY_CHECK, and only
\* when a policy flag was passed.
C7_FlagsCumulative ==
    /\ flagsPassed \subseteq st.flags
    /\ st.flags \ flagsPassed \subseteq {"POLICY_CHECK"}
    /\ st.flags # flagsPassed => flagsPassed \cap PolicyMask # {}

\* The last set_flags call passed CRL_CHECK alone, an earlier one passed
\* EXPLICIT_POLICY, and both are active.
C7_Witness ==
    /\ lastOp.op = "set_flags"
    /\ lastOp.flags = {"CRL_CHECK"}
    /\ flagsPassed = {"CRL_CHECK", "EXPLICIT_POLICY"}
    /\ {"CRL_CHECK", "EXPLICIT_POLICY"} \subseteq st.flags

\* C10: build neither frees nor alters the X509_STORE it hands over; the
\* handle is never freed twice nor used after being freed, and it is freed
\* exactly when its one owner, builder or store, has been dropped.
C10_HandleFreedOnce ==
    /\ freed <= 1
    /\ ~uaf
    /\ store # "none" => st = atBuild
    /\ lastOp.op = "build" => freed = 0
    /\ (freed = 1) <=> (builder = "dropped" \/ store = "dropped")

\* A builder holding certificates and a lookup was built, the store was
\* read and then dropped.
C10_Witness ==
    /\ builder = "moved"
    /\ store = "dropped"
    /\ freed = 1
    /\ Len(st.objs) > 0
    /\ Len(st.lookups) > 0
    /\ seen = st.objs

====
